---- MODULE Spec2Model ----
(***************************************************************************)
(* Model of src/src/main_sum.cpp: the benchmark harness that sums an array *)
(* of unsigned integers with a sequential CPU loop, an OpenMP reduction    *)
(* and six OpenCL kernels, validating every trial against reference_sum.   *)
(*                                                                         *)
(* Scaling.  `unsigned int` is modelled with WordBits bits instead of 32   *)
(* (all arithmetic is taken modulo 2^WordBits, `int` is the two's          *)
(* complement reading of the same bits).  The element count n, a           *)
(* literal in the source, is an input drawn from 0..MaxN.  The unit-level  *)
(* specification Spec runs work groups of GroupSize = 2^LogGroupSize units *)
(* (the source uses 2^7); the launch arithmetic itself is checked with the *)
(* source's workGroupSize = 128 in SpecLaunch.                             *)
(***************************************************************************)
EXTENDS Integers, Sequences, FiniteSets, TLC

\* ------------------------------------------------------------ bounds
WordBits == 10
MaxN == 3
MaxThreads == 2
LogGroupSize == 1
VALUES_PER_WORKITEM == 2

\* ------------------------------------------------------------ constants
benchmarkingIters == 10
workGroupSize == 128

Pow2(k) == 2 ^ k
UINT_MAX == Pow2(WordBits) - 1
GroupSize == Pow2(LogGroupSize)

kernel_names ==
  << "sum_dummy", "sum_global_atomic", "sum_loop",
     "sum_loop_coalesced", "sum_local_memory", "sum_tree" >>

\* The eight strategies in program order: the two CPU blocks, then kernel_names.
StrategyNames == << "CPU", "CPU OMP" >> \o kernel_names

NumStrategies == Len(StrategyNames)
CPU == 1
OMP == 2
FirstKernel == 3
IsKernel(s) == s >= FirstKernel

\* Marker for a memory cell that was allocated and never written.
UNDEF == -1
\* What a read of an unwritten or out-of-bounds cell may return.
Garbage == {0, UINT_MAX}

\* ------------------------------------------------------------ arithmetic
\* unsigned int addition (sum += as[i], reference_sum += as[i]); the first
\* definition is the saturating variant the code does not use.
Add32Saturating(a, b) == IF a + b > UINT_MAX THEN UINT_MAX ELSE a + b
Add32(a, b) == (a + b) % Pow2(WordBits)

\* unsigned -> int conversion (const int global_work_size = <unsigned>).
ToInt(u) == IF u >= Pow2(WordBits - 1) THEN u - Pow2(WordBits) ELSE u

\* (n + workGroupSize - 1) / workGroupSize * workGroupSize, evaluated in
\* unsigned int (n is unsigned, so workGroupSize is converted) and stored in
\* a const int.  (GlobalWorkSizeRoundDown: the faulty variant without the
\* `+ workGroupSize - 1`.)
GlobalWorkSizeRoundDown(cnt_n, wgs) == ToInt(((cnt_n \div wgs) * wgs) % Pow2(WordBits))
GlobalWorkSize(cnt_n, wgs) ==
  ToInt(((((cnt_n + wgs - 1) % Pow2(WordBits)) \div wgs) * wgs) % Pow2(WordBits))

\* std::numeric_limits<unsigned int>::max() / n, the upper end handed to r.next.
\* (GenBoundUndivided: the faulty variant without the division.)
GenBoundUndivided(cnt_n) == UINT_MAX
GenBound(cnt_n) == UINT_MAX \div cnt_n

\* FastRandom::next(lo, hi): some value of [lo, hi]; the end points are drawn.
RandomNext(lo, hi) == {v \in {lo, hi} : lo <= v /\ v <= hi}

\* raiseFail throws exactly when its two values differ.  (ThrowsNever: the
\* faulty variant that only prints.)
ThrowsInverted(a, b) == a = b
ThrowsNever(a, b) == FALSE
Throws(a, b) == a # b

\* Loop condition of the three trial loops.  (LoopCondOffByOne: `<=`.)
LoopCondOffByOne(it) == it <= benchmarkingIters
LoopCond(it) == it < benchmarkingIters

\* What result_gpu.writeN(&zero, 1) stores (zero = 0); `old` is the cell before.
\* (ClearSkipped: the faulty variant that leaves the cell as it was.)
ClearSkipped(old) == old
ClearValue(old) == 0

\* ------------------------------------------------------------ state
VARIABLES
  n,                \* element count
  as,               \* host input array, index 0..n-1
  reference_sum,    \* oracle
  i,                \* loop index of the generation loop and of the CPU loop
  pc,               \* position of main
  strat,            \* index into StrategyNames of the running block (0: none yet)
  iter,             \* trial counter of the running block
  sum,              \* the CPU blocks' accumulator
  laps,             \* laps recorded by the running block's timer
  out,              \* strategies whose timing lines were printed, in order
  err,              \* what raiseFail printed before it threw (<<>>: nothing)
  global_work_size, \* const int global_work_size
  as_gpu,           \* device copy of the input array
  result_gpu,       \* the one-cell device buffer
  result,           \* host copy read back from result_gpu
  owner,            \* OpenMP: iteration index -> thread that runs it
  thr,              \* OpenMP team: thread -> [priv, pos, st]
  units,            \* launched work items: global id -> [pc, lvl]
  scratch,          \* local memory, addressed by the global id of its slot
  cnt,              \* ghost: how often element j was accumulated this trial
  readers,          \* ghost: work items that read an input element this trial
  reads,            \* ghost: input elements read this trial
  oob,              \* ghost: an input index outside 0..n-1 was read
  uninit,           \* ghost: an unwritten cell was read
  adds,             \* ghost: atomic adds on result_gpu this trial
  contrib,          \* ghost: wrapped sum of the values passed to atomic_add this trial
  writes,           \* ghost: writes to the running block's result cell this trial
  trial             \* ghost: the steps taken so far in the current trial

vars == << n, as, reference_sum, i, pc, strat, iter, sum, laps, out, err,
           global_work_size, as_gpu, result_gpu, result, owner, thr, units, scratch,
           cnt, readers, reads, oob, uninit, adds, contrib, writes, trial >>

inputVars == << n, as, reference_sum, as_gpu >>
ompVars == << owner, thr >>
gpuVars == << units, scratch >>
ghostVars == << cnt, readers, reads, oob, uninit, adds, contrib, writes >>

NoThreads == [t \in {} |-> 0]
NoUnits == [g \in {} |-> 0]
ZeroCnt == [j \in 0 .. n - 1 |-> 0]

\* Everything but n and the array before the generation loop.
InitRest ==
  /\ reference_sum = 0
  /\ i = 0
  /\ strat = 0
  /\ iter = 0
  /\ sum = 0
  /\ laps = 0
  /\ out = << >>
  /\ err = << >>
  /\ global_work_size = 0
  /\ as_gpu = NoUnits
  /\ result_gpu = UNDEF
  /\ result = UNDEF
  /\ owner = NoThreads
  /\ thr = NoThreads
  /\ units = NoUnits
  /\ scratch = NoUnits
  /\ readers = {}
  /\ reads = 0
  /\ oob = FALSE
  /\ uninit = FALSE
  /\ adds = 0
  /\ contrib = 0
  /\ writes = 0
  /\ trial = << >>

\* State after `std::vector<unsigned int> as(n, 0); FastRandom r(42);`.
Init ==
  /\ n \in 0 .. MaxN
  /\ as = [j \in 0 .. n - 1 |-> 0]
  /\ cnt = ZeroCnt
  /\ InitRest
  /\ pc = "gen"

\* ------------------------------------------------------------ input
\* One pass of the generation loop: as[i] = r.next(0, max / n); reference_sum += as[i].
Generate ==
  /\ pc = "gen"
  /\ i < n
  /\ \E v \in RandomNext(0, GenBound(n)) :
       /\ as' = [as EXCEPT ![i] = v]
       /\ reference_sum' = Add32(reference_sum, v)
  /\ i' = i + 1
  /\ UNCHANGED << n, as_gpu, pc, strat, iter, sum, laps, out, err,
                  global_work_size, result_gpu, result, ompVars, gpuVars,
                  ghostVars, trial >>

\* The generation loop ends; the CPU block starts with a fresh timer.
GenerateDone ==
  /\ pc = "gen"
  /\ ~(i < n)
  /\ strat' = CPU
  /\ iter' = 0
  /\ laps' = 0
  /\ pc' = "head"
  /\ UNCHANGED << inputVars, i, sum, out, err, global_work_size, result_gpu,
                  result, ompVars, gpuVars, ghostVars, trial >>

\* ------------------------------------------------------------ trial loop
\* for (int iter = 0; iter < benchmarkingIters; ++iter)
IterHead ==
  /\ pc = "head"
  /\ pc' = IF LoopCond(iter) THEN "reset" ELSE "report"
  /\ trial' = << >>
  /\ UNCHANGED << inputVars, i, strat, iter, sum, laps, out, err,
                  global_work_size, result_gpu, result, ompVars, gpuVars,
                  ghostVars >>

\* `unsigned int sum = 0;` in the CPU blocks, `result_gpu.writeN(&zero, 1)` in
\* the kernel block.
Reset ==
  /\ pc = "reset"
  /\ IF IsKernel(strat)
       THEN result_gpu' = ClearValue(result_gpu) /\ sum' = sum
       ELSE sum' = 0 /\ result_gpu' = result_gpu
  /\ cnt' = ZeroCnt
  /\ readers' = {}
  /\ reads' = 0
  /\ adds' = 0
  /\ contrib' = 0
  /\ writes' = 0
  /\ trial' = Append(trial, "reset")
  /\ pc' = "launch"
  /\ UNCHANGED << inputVars, i, strat, iter, laps, out, err, global_work_size,
                  result, ompVars, gpuVars, oob, uninit >>

\* ------------------------------------------------------------ CPU
\* for (int i = 0; ...
CpuLaunch ==
  /\ pc = "launch"
  /\ strat = CPU
  /\ i' = 0
  /\ trial' = Append(trial, "exec")
  /\ pc' = "running"
  /\ UNCHANGED << inputVars, strat, iter, sum, laps, out, err,
                  global_work_size, result_gpu, result, ompVars, gpuVars,
                  ghostVars >>

\* Loop condition of the sequential accumulation.  (CpuLoopCondShort: the
\* faulty loop that stops one element early.)
CpuLoopCondShort(idx, cnt_n) == idx < cnt_n - 1
CpuLoopCond(idx, cnt_n) == idx < cnt_n

\* ... i < n; ++i) sum += as[i];
CpuStep ==
  /\ pc = "running"
  /\ strat = CPU
  /\ CpuLoopCond(i, n)
  /\ sum' = Add32(sum, as[i])
  /\ cnt' = [cnt EXCEPT ![i] = @ + 1]
  /\ reads' = reads + 1
  /\ i' = i + 1
  /\ writes' = writes + 1
  /\ UNCHANGED << inputVars, pc, strat, iter, laps, out, err,
                  global_work_size, result_gpu, result, ompVars, gpuVars,
                  readers, oob, uninit, adds, contrib, trial >>

CpuLoopExit ==
  /\ pc = "running"
  /\ strat = CPU
  /\ ~CpuLoopCond(i, n)
  /\ pc' = "validate"
  /\ UNCHANGED << inputVars, i, strat, iter, sum, laps, out, err,
                  global_work_size, result_gpu, result, ompVars, gpuVars,
                  ghostVars, trial >>

\* ------------------------------------------------------------ OpenMP
\* Teams are interchangeable, so only one numbering of each partition is kept:
\* iteration 0 belongs to thread 1 and iteration j to a thread numbered at
\* most one above those used by 0..j-1.
Canonical(f) ==
  \A j \in DOMAIN f :
    \A t \in 2 .. f[j] : \E k \in DOMAIN f : k < j /\ f[k] = t - 1

\* Iterations thread t runs.  (OmpChunkOverlapping: faulty chunks in which
\* iteration 0 is also given to thread 2.)
OmpChunkOverlapping(t) == {j \in DOMAIN owner : owner[j] = t \/ (j = 0 /\ t = 2)}
OmpChunk(t) == {j \in DOMAIN owner : owner[j] = t}
\* Iterations of thread t that it has not run yet; it runs the least next.
OmpLeft(t) == {j \in OmpChunk(t) : j >= thr[t].pos}
MinOf(S) == CHOOSE x \in S : \A y \in S : x <= y

\* What the reduction clause does with a finished thread's private copy.
\* (OmpCombineOverwrite: the faulty variant that stores instead of adding.)
OmpCombineOverwrite(shared, priv) == priv
OmpCombineValue(shared, priv) == Add32(shared, priv)

\* #pragma omp parallel for reduction(+:sum): the team is formed, the
\* iterations 0..n-1 are divided among it, every private copy starts at 0.
OmpFork ==
  /\ pc = "launch"
  /\ strat = OMP
  /\ \E T \in 1 .. MaxThreads :
       /\ \E f \in [0 .. n - 1 -> 1 .. T] : Canonical(f) /\ owner' = f
       /\ thr' = [t \in 1 .. T |-> [priv |-> 0, pos |-> 0, st |-> "run"]]
  /\ trial' = Append(trial, "exec")
  /\ pc' = "running"
  /\ UNCHANGED << inputVars, i, strat, iter, sum, laps, out, err,
                  global_work_size, result_gpu, result, gpuVars, ghostVars >>

\* One iteration of thread t.
OmpIter(t) ==
  /\ pc = "running"
  /\ strat = OMP
  /\ thr[t].st = "run"
  /\ OmpLeft(t) # {}
  /\ LET j == MinOf(OmpLeft(t)) IN
       /\ thr' = [thr EXCEPT ![t].priv = Add32(@, as[j]), ![t].pos = j + 1]
       /\ cnt' = [cnt EXCEPT ![j] = @ + 1]
  /\ reads' = reads + 1
  /\ UNCHANGED << inputVars, i, pc, strat, iter, sum, laps, out, err,
                  global_work_size, result_gpu, result, owner, gpuVars,
                  readers, oob, uninit, adds, contrib, writes, trial >>

\* Thread t has run its iterations: its private copy is combined into sum.
OmpCombine(t) ==
  /\ pc = "running"
  /\ strat = OMP
  /\ thr[t].st = "run"
  /\ OmpLeft(t) = {}
  /\ sum' = OmpCombineValue(sum, thr[t].priv)
  /\ thr' = [thr EXCEPT ![t].st = "done"]
  /\ writes' = writes + 1
  /\ UNCHANGED << inputVars, i, pc, strat, iter, laps, out, err,
                  global_work_size, result_gpu, result, owner, gpuVars,
                  cnt, readers, reads, oob, uninit, adds, contrib, trial >>

\* The implicit barrier at the end of the parallel region.  (OmpJoinedAny: the
\* faulty variant that waits for one thread only.)
OmpJoinedAny == \E t \in DOMAIN thr : thr[t].st = "done"
OmpJoined == \A t \in DOMAIN thr : thr[t].st = "done"
OmpJoin ==
  /\ pc = "running"
  /\ strat = OMP
  /\ OmpJoined
  /\ thr' = NoThreads
  /\ owner' = NoThreads
  /\ pc' = "validate"
  /\ UNCHANGED << inputVars, i, strat, iter, sum, laps, out, err,
                  global_work_size, result_gpu, result, gpuVars, ghostVars,
                  trial >>

\* ------------------------------------------------------------ kernels
\* The kernel bodies (cl/sum.cl) are launched with WorkSize(workGroupSize,
\* global_work_size): global ids 0..global_work_size-1 in groups of GroupSize.
KernelName == StrategyNames[strat]
Group(g) == g \div GroupSize
Lid(g) == g % GroupSize
GroupOf(g) == {u \in DOMAIN units : Group(u) = Group(g)}

\* Work items step only between kernel.exec's launch and its return.
UnitRuns == pc = "running" /\ IsKernel(strat)

\* Bounds check every kernel applies before it reads as[idx].
\* (InBoundsInclusive: the faulty variant with `<=`.)
InBoundsInclusive(idx) == idx <= n
InBounds(idx) == idx < n

\* Input indices work item g is responsible for, before the bounds check.
UnitIndices(g) ==
  CASE KernelName = "sum_dummy" -> IF g = 0 THEN 0 .. n - 1 ELSE {}
    [] KernelName = "sum_loop" ->
         {g + k * global_work_size : k \in 0 .. VALUES_PER_WORKITEM - 1}
    [] KernelName = "sum_loop_coalesced" ->
         {Group(g) * GroupSize * VALUES_PER_WORKITEM + k * GroupSize + Lid(g) :
            k \in 0 .. VALUES_PER_WORKITEM - 1}
    [] OTHER -> {g}

UnitReads(g) == {idx \in UnitIndices(g) : InBounds(idx)}

\* Sum modulo 2^WordBits of f over the finite set S.
RECURSIVE SumOver(_, _)
SumOver(f, S) ==
  IF S = {} THEN 0
  ELSE LET x == MinOf(S) IN Add32(f[x], SumOver(f, S \ {x}))

\* Kernels in which every work item folds its own partial sum into result.
DirectKernels == {"sum_dummy", "sum_global_atomic", "sum_loop", "sum_loop_coalesced"}
\* Barriers a work item of the staged kernels passes: one after staging, then
\* one after each halving round of the tree.
Rounds == IF KernelName = "sum_tree" THEN LogGroupSize ELSE 0

\* Whether work item g issues an atomic add at all.
Contributes(g) ==
  CASE KernelName = "sum_dummy" -> g = 0
    [] KernelName = "sum_global_atomic" -> InBounds(g)
    [] OTHER -> TRUE

\* atomic_add(result, v) by one work item.
AtomicAdd(v) ==
  /\ \E old \in (IF result_gpu = UNDEF THEN Garbage ELSE {result_gpu}) :
       result_gpu' = Add32(old, v)
  /\ adds' = adds + 1
  /\ contrib' = Add32(contrib, v)
  /\ writes' = writes + 1

\* A work item of a direct kernel: read its elements, add them up privately,
\* fold the partial sum into result.
UnitDirect(g) ==
  /\ UnitRuns
  /\ KernelName \in DirectKernels
  /\ units[g].pc = "start"
  /\ LET R == UnitReads(g)
         good == R \cap DOMAIN as_gpu
     IN /\ \E junk \in (IF R = good THEN {0} ELSE Garbage) :
             IF Contributes(g)
               THEN /\ AtomicAdd(Add32(SumOver(as_gpu, good), junk))
                    /\ uninit' = (uninit \/ result_gpu = UNDEF)
               ELSE UNCHANGED << result_gpu, adds, contrib, writes, uninit >>
        /\ cnt' = [j \in DOMAIN cnt |-> IF j \in good THEN cnt[j] + 1 ELSE cnt[j]]
        /\ readers' = IF R = {} THEN readers ELSE readers \cup {g}
        /\ reads' = reads + Cardinality(R)
        /\ oob' = (oob \/ R # good)
  /\ units' = [units EXCEPT ![g].pc = "done"]
  /\ UNCHANGED << inputVars, i, pc, strat, iter, sum, laps, out, err,
                  global_work_size, result, ompVars, scratch, trial >>

\* Staged kernels: work item g copies its element (0 beyond the array) into
\* its slot of local memory and goes to the first barrier.
UnitStage(g) ==
  /\ UnitRuns
  /\ KernelName \notin DirectKernels
  /\ units[g].pc = "start"
  /\ LET R == UnitReads(g)
         good == R \cap DOMAIN as_gpu
     IN /\ \E junk \in (IF R = good THEN {0} ELSE Garbage) :
             scratch' = [scratch EXCEPT ![g] = Add32(SumOver(as_gpu, good), junk)]
        /\ cnt' = [j \in DOMAIN cnt |-> IF j \in good THEN cnt[j] + 1 ELSE cnt[j]]
        /\ readers' = IF R = {} THEN readers ELSE readers \cup {g}
        /\ reads' = reads + Cardinality(R)
        /\ oob' = (oob \/ R # good)
  /\ units' = [units EXCEPT ![g].pc = "bar"]
  /\ UNCHANGED << inputVars, i, pc, strat, iter, sum, laps, out, err,
                  global_work_size, result_gpu, result, ompVars, uninit, adds, contrib, writes,
                  trial >>

\* Work item u has arrived at barrier number k (or is already past it).
Reached(u, k) ==
  \/ units[u].lvl > k
  \/ units[u].lvl = k /\ units[u].pc = "bar"

\* barrier(CLK_LOCAL_MEM_FENCE): g leaves barrier number units[g].lvl once
\* every work item of its group has reached that barrier.  (BarrierSkipped:
\* the faulty kernel without the barrier.)
BarrierSkipped(g) == TRUE
BarrierOpen(g) == \A u \in GroupOf(g) : Reached(u, units[g].lvl)

\* The work item of a group that folds the group's partial sum into result.
\* (EveryoneFolds: the faulty kernel in which every work item does.)
EveryoneFolds(g) == TRUE
IsRepresentative(g) == Lid(g) = 0

UnitBarrier(g) ==
  /\ UnitRuns
  /\ KernelName \notin DirectKernels
  /\ units[g].pc = "bar"
  /\ BarrierOpen(g)
  /\ units' = [units EXCEPT
       ![g].lvl = @ + 1,
       ![g].pc = IF units[g].lvl < Rounds THEN "red"
                 ELSE IF IsRepresentative(g) THEN "fold" ELSE "done"]
  /\ UNCHANGED << inputVars, i, pc, strat, iter, sum, laps, out, err,
                  global_work_size, result_gpu, result, ompVars, scratch,
                  ghostVars, trial >>

\* One halving round of sum_tree: the lower half of the live slots each add
\* the slot `half` above them; then the next barrier.
Half(g) == GroupSize \div Pow2(units[g].lvl)
\* Slots a work item reads in a halving round: its own and the one `half` above.
ReduceSlots(g) == IF Lid(g) < Half(g) THEN {g, g + Half(g)} ELSE {}
\* The values a work item gets from the slots S; an unwritten slot gives junk.
SlotValues(S, junk) == [u \in S |-> IF scratch[u] = UNDEF THEN junk ELSE scratch[u]]
UnitReduce(g) ==
  /\ UnitRuns
  /\ KernelName = "sum_tree"
  /\ units[g].pc = "red"
  /\ LET S == ReduceSlots(g)
         bad == \E u \in S : scratch[u] = UNDEF
     IN IF S # {}
          THEN /\ \E junk \in (IF bad THEN Garbage ELSE {0}) :
                    scratch' = [scratch EXCEPT ![g] = SumOver(SlotValues(S, junk), S)]
               /\ uninit' = (uninit \/ bad)
          ELSE UNCHANGED << scratch, uninit >>
  /\ units' = [units EXCEPT ![g].pc = "bar"]
  /\ UNCHANGED << inputVars, i, pc, strat, iter, sum, laps, out, err,
                  global_work_size, result_gpu, result, ompVars, cnt, readers,
                  reads, oob, adds, contrib, writes, trial >>

\* The group's first work item folds the group's partial sum into result:
\* sum_local_memory adds up the GroupSize slots, sum_tree takes slot 0.
FoldSlots(g) == IF KernelName = "sum_tree" THEN {g} ELSE GroupOf(g)
UnitFold(g) ==
  /\ UnitRuns
  /\ KernelName \notin DirectKernels
  /\ units[g].pc = "fold"
  /\ LET S == FoldSlots(g)
         bad == \E u \in S : scratch[u] = UNDEF
     IN /\ \E junk \in (IF bad THEN Garbage ELSE {0}) :
             AtomicAdd(SumOver(SlotValues(S, junk), S))
        /\ uninit' = (uninit \/ bad \/ result_gpu = UNDEF)
  /\ units' = [units EXCEPT ![g].pc = "done"]
  /\ UNCHANGED << inputVars, i, pc, strat, iter, sum, laps, out, err,
                  global_work_size, result, ompVars, scratch, cnt, readers,
                  reads, oob, trial >>

\* Scratch slots work item g reads in its next step.
ScratchReads(g) ==
  CASE units[g].pc = "red" -> ReduceSlots(g)
    [] units[g].pc = "fold" -> FoldSlots(g)
    [] OTHER -> {}

\* ------------------------------------------------------------ kernel block
\* Lines 67-90: launch configuration, context, buffers.  as_gpu receives the
\* input (resizeN(n), writeN(as.data(), n)); resizeN(1) allocates result_gpu
\* without writing it; `result` is declared without a value.
\* as_gpu.resizeN(n); as_gpu.writeN(as.data(), n): the first count elements
\* of the host array.  (UploadShort: the faulty copy that leaves out the last.)
UploadShort(a, count) == [j \in 0 .. count - 2 |-> a[j]]
Upload(a, count) == [j \in 0 .. count - 1 |-> a[j]]

GpuSetup ==
  /\ pc = "gpu_setup"
  /\ global_work_size' = GlobalWorkSize(n, GroupSize)
  /\ as_gpu' = Upload(as, n)
  /\ result_gpu' = UNDEF
  /\ result' = UNDEF
  /\ strat' = FirstKernel
  /\ pc' = "compile"
  /\ UNCHANGED << n, as, reference_sum, i, iter, sum, laps, out, err, ompVars, gpuVars,
                  ghostVars, trial >>

\* ocl::Kernel kernel(..., name); kernel.compile(false); timer t;
Compile ==
  /\ pc = "compile"
  /\ iter' = 0
  /\ laps' = 0
  /\ pc' = "head"
  /\ UNCHANGED << inputVars, i, strat, sum, out, err, global_work_size,
                  result_gpu, result, ompVars, gpuVars, ghostVars, trial >>

\* kernel.exec(gpu::WorkSize(workGroupSize, global_work_size), as_gpu, result_gpu, n)
\* enqueues global_work_size work items ...
LaunchedIds == 0 .. global_work_size - 1
KernelLaunch ==
  /\ pc = "launch"
  /\ IsKernel(strat)
  /\ units' = [g \in LaunchedIds |-> [pc |-> "start", lvl |-> 0]]
  /\ scratch' = [g \in LaunchedIds |-> UNDEF]
  /\ trial' = Append(trial, "exec")
  /\ pc' = "running"
  /\ UNCHANGED << inputVars, i, strat, iter, sum, laps, out, err,
                  global_work_size, result_gpu, result, ompVars, ghostVars >>

\* ... and returns when all of them have finished.
KernelFinished == \A g \in DOMAIN units : units[g].pc = "done"
KernelWait ==
  /\ pc = "running"
  /\ IsKernel(strat)
  /\ KernelFinished
  /\ units' = NoUnits
  /\ scratch' = NoUnits
  /\ pc' = "readback"
  /\ UNCHANGED << inputVars, i, strat, iter, sum, laps, out, err,
                  global_work_size, result_gpu, result, ompVars, ghostVars,
                  trial >>

\* result_gpu.readN(&result, 1)
ReadBack ==
  /\ pc = "readback"
  /\ \E v \in (IF result_gpu = UNDEF THEN Garbage ELSE {result_gpu}) : result' = v
  /\ uninit' = (uninit \/ result_gpu = UNDEF)
  /\ trial' = Append(trial, "read")
  /\ pc' = "validate"
  /\ UNCHANGED << inputVars, i, strat, iter, sum, laps, out, err,
                  global_work_size, result_gpu, ompVars, gpuVars, cnt, readers,
                  reads, oob, adds, contrib, writes >>

\* ------------------------------------------------------------ validation
\* The value EXPECT_THE_SAME compares with reference_sum, its message and
\* the __LINE__ it passes on.
Validated == IF IsKernel(strat) THEN result ELSE sum
\* (MessageOfCpu: the faulty call that passes the CPU block's message.)
MessageOfCpu == "CPU result should be consistent!"
Message ==
  IF strat = CPU THEN "CPU result should be consistent!"
  ELSE IF strat = OMP THEN "CPU OpenMP result should be consistent!"
  ELSE StrategyNames[strat]
ExpectLine == IF strat = CPU THEN 43 ELSE IF strat = OMP THEN 58 ELSE 102
\* __FILE__ of the one translation unit.
FileName == "main_sum.cpp"
\* std::cerr << message << " But " << a << " != " << b << ", " << filename
\*           << ":" << line: the fields of the printed line.
FailReport(a, b, message, filename, line) ==
  [message |-> message, a |-> a, b |-> b, filename |-> filename, line |-> line]

\* EXPECT_THE_SAME(reference_sum, <value>, <message>): raiseFail prints the
\* message and both values and throws; nothing in main catches it.
Validate ==
  /\ pc = "validate"
  /\ trial' = Append(trial, "validate")
  /\ IF Throws(reference_sum, Validated)
       THEN /\ err' = FailReport(reference_sum, Validated, Message, FileName, ExpectLine)
            /\ pc' = "aborted"
       ELSE /\ err' = err
            /\ pc' = "lap"
  /\ UNCHANGED << inputVars, i, strat, iter, sum, laps, out,
                  global_work_size, result_gpu, result, ompVars, gpuVars,
                  ghostVars >>

\* t.nextLap(); ++iter
NextLap ==
  /\ pc = "lap"
  /\ laps' = laps + 1
  /\ iter' = iter + 1
  /\ trial' = Append(trial, "lap")
  /\ pc' = "head"
  /\ UNCHANGED << inputVars, i, strat, sum, out, err, global_work_size,
                  result_gpu, result, ompVars, gpuVars, ghostVars >>

\* The two std::cout lines (lapAvg +- lapStd, millions/s), then the next block.
Report ==
  /\ pc = "report"
  /\ out' = Append(out, StrategyNames[strat])
  /\ IF strat = CPU
       THEN strat' = OMP /\ iter' = 0 /\ laps' = 0 /\ pc' = "head"
       ELSE IF strat = OMP
         THEN strat' = strat /\ iter' = iter /\ laps' = laps /\ pc' = "gpu_setup"
         ELSE IF strat < NumStrategies
           THEN strat' = strat + 1 /\ iter' = iter /\ laps' = laps /\ pc' = "compile"
           ELSE strat' = strat /\ iter' = iter /\ laps' = laps /\ pc' = "done"
  /\ UNCHANGED << inputVars, i, sum, err, global_work_size, result_gpu,
                  result, ompVars, gpuVars, ghostVars, trial >>

\* ------------------------------------------------------------ specification
RunSteps ==
  \/ GenerateDone
  \/ IterHead
  \/ Reset
  \/ CpuLaunch
  \/ CpuStep
  \/ CpuLoopExit
  \/ OmpFork
  \/ \E t \in DOMAIN thr : OmpIter(t)
  \/ \E t \in DOMAIN thr : OmpCombine(t)
  \/ OmpJoin
  \/ GpuSetup
  \/ Compile
  \/ KernelLaunch
  \/ KernelWait
  \/ ReadBack
  \/ Validate
  \/ NextLap
  \/ Report

Harness == Generate \/ RunSteps

Device ==
  \/ \E g \in DOMAIN units : UnitDirect(g)
  \/ \E g \in DOMAIN units : UnitStage(g)
  \/ \E g \in DOMAIN units : UnitBarrier(g)
  \/ \E g \in DOMAIN units : UnitReduce(g)
  \/ \E g \in DOMAIN units : UnitFold(g)

Next == Harness \/ Device

Spec == Init /\ [][Next]_vars

\* Fair scheduling: main, the OpenMP threads and the work items are not all
\* held back for ever while one of them can take a step.
SpecFair == Spec /\ WF_vars(Next)

\* ------------------------------------------------------------ launch arithmetic
\* Line 68 alone, with the source's workGroupSize, for every n of the word.
LaunchConfig ==
  /\ pc = "cfg"
  /\ global_work_size' = GlobalWorkSize(n, workGroupSize)
  /\ pc' = "cfg_done"
  /\ UNCHANGED << inputVars, i, strat, iter, sum, laps, out, err, result_gpu,
                  result, ompVars, gpuVars, ghostVars, trial >>

\* Any n of the word; the array plays no part in line 68 and is left out.
InitLaunch ==
  /\ n \in 0 .. UINT_MAX
  /\ as = NoUnits
  /\ cnt = NoUnits
  /\ InitRest
  /\ pc = "cfg"

SpecLaunch == InitLaunch /\ [][LaunchConfig]_vars

\* ------------------------------------------------------------ any input array
\* The strategies as functions of the array: main with an array that holds any
\* values of the word instead of the bounded ones the generation loop draws.
\* The values kept are 1 and the largest one, so that sums wrap.
AnyValues == {1, UINT_MAX}

\* reference_sum += as[i] of the generation loop, the array being given.
OracleStep ==
  /\ pc = "gen"
  /\ i < n
  /\ reference_sum' = Add32(reference_sum, as[i])
  /\ i' = i + 1
  /\ UNCHANGED << n, as, as_gpu, pc, strat, iter, sum, laps, out, err,
                  global_work_size, result_gpu, result, ompVars, gpuVars,
                  ghostVars, trial >>

InitAnyInput ==
  /\ n \in 0 .. MaxN
  /\ as \in [0 .. n - 1 -> AnyValues]
  /\ cnt = ZeroCnt
  /\ InitRest
  /\ pc = "gen"

NextAnyInput == OracleStep \/ RunSteps \/ Device

SpecAnyInput == InitAnyInput /\ [][NextAnyInput]_vars

\* ------------------------------------------------------------ any kernel module
\* The harness compiles whatever sum_kernel holds under each name.  Here the
\* launched work items leave an arbitrary value in result_gpu, which is the
\* situation EXPECT_THE_SAME exists for.
AnyKernelRun ==
  /\ UnitRuns
  /\ \E g \in DOMAIN units : units[g].pc # "done"
  /\ result_gpu' \in {reference_sum, 0, UINT_MAX}
  /\ units' = [g \in DOMAIN units |-> [units[g] EXCEPT !.pc = "done"]]
  /\ UNCHANGED << inputVars, i, pc, strat, iter, sum, laps, out, err,
                  global_work_size, result, ompVars, scratch, ghostVars, trial >>

\* kernel.compile and kernel.exec report a failure by throwing.  main has no
\* try block, so the exception leaves main and the run ends where it was
\* thrown.  (OnThrowSkipKernel: the faulty harness that catches the exception
\* and goes on to the kernel's report.)
OnThrowSkipKernel == "report"
OnThrow == "failed"

CompileFails ==
  /\ pc = "compile"
  /\ pc' = OnThrow
  /\ UNCHANGED << inputVars, i, strat, iter, sum, laps, out, err,
                  global_work_size, result_gpu, result, ompVars, gpuVars,
                  ghostVars, trial >>

LaunchFails ==
  /\ pc = "launch"
  /\ IsKernel(strat)
  /\ pc' = OnThrow
  /\ UNCHANGED << inputVars, i, strat, iter, sum, laps, out, err,
                  global_work_size, result_gpu, result, ompVars, gpuVars,
                  ghostVars, trial >>

NextAnyKernel == Harness \/ AnyKernelRun \/ CompileFails \/ LaunchFails

SpecAnyKernel == Init /\ [][NextAnyKernel]_vars

\* ------------------------------------------------------------ claims
\* Sequential accumulation of as[0..k-1] modulo 2^WordBits, and without wrap.
RECURSIVE OracleSum(_)
OracleSum(k) == IF k = 0 THEN 0 ELSE (OracleSum(k - 1) + as[k - 1]) % Pow2(WordBits)
RECURSIVE PlainSum(_)
PlainSum(k) == IF k = 0 THEN 0 ELSE PlainSum(k - 1) + as[k - 1]

TrialPcs == {"head", "reset", "launch", "running", "readback", "validate", "lap", "report"}
KernelOrder == << "reset", "exec", "read", "validate", "lap" >>
CpuOrder == << "reset", "exec", "validate", "lap" >>
TrialOrder == IF IsKernel(strat) THEN KernelOrder ELSE CpuOrder
IsPrefix(s, t) == Len(s) <= Len(t) /\ s = SubSeq(t, 1, Len(s))

\* C1: in every strategy, trial and interleaving, the value that reaches the
\* validation equals the reference sum, which is the sequential sum of the
\* input array modulo 2^WordBits.
C1_ValidatedIsReference ==
  pc = "validate" =>
    /\ Validated = reference_sum
    /\ reference_sum = OracleSum(n)

C1_Witness ==
  /\ pc = "validate"
  /\ StrategyNames[strat] = "sum_tree"
  /\ iter = benchmarkingIters - 1
  /\ n > GroupSize
  /\ \A j \in DOMAIN as : as[j] # 0

\* C2: a mismatch at a validation ends the run there: the step taken from the
\* mismatching validation aborts without printing, the failing strategy has
\* no timing report, and nothing changes after the abort (no later trial, no
\* later strategy, no retry).
C2_AbortOnMismatch ==
  /\ [](pc = "aborted" =>
          /\ Len(out) = strat - 1
          /\ \A k \in 1 .. Len(out) : out[k] # StrategyNames[strat])
  /\ [][/\ (pc = "validate" /\ Validated # reference_sum) =>
             (pc' = "aborted" /\ out' = out /\ iter' = iter /\ strat' = strat)
        /\ pc # "aborted"]_vars

C2_Witness ==
  /\ pc = "aborted"
  /\ StrategyNames[strat] = "sum_global_atomic"
  /\ iter = 3
  /\ laps = 3

\* C3: every strategy runs exactly 10 trials, the steps of a trial come in the
\* order reset, execute, (read back,) validate, record the lap, and a strategy
\* is reported only after its 10 trials were validated and recorded.
C3_TenOrderedTrials ==
  /\ [](pc \in TrialPcs =>
          /\ iter <= 10
          /\ laps = iter
          /\ IsPrefix(trial, TrialOrder)
          /\ (pc = "validate" => trial = SubSeq(TrialOrder, 1, Len(TrialOrder) - 2))
          /\ (pc = "lap" => trial = SubSeq(TrialOrder, 1, Len(TrialOrder) - 1))
          /\ (pc = "report" => iter = 10))
  /\ [][out' # out =>
          /\ pc = "report"
          /\ laps = 10
          /\ out' = Append(out, StrategyNames[strat])]_vars

C3_Witness ==
  /\ pc = "report"
  /\ StrategyNames[strat] = "sum_loop"
  /\ laps = 10
  /\ Len(out) = strat - 1

\* C4: strategies do not overlap.  Workers exist only while their own strategy
\* executes, never threads and work items together; a strategy is in its
\* trials only when exactly the strategies before it have been reported, in
\* the fixed order; and execution is left for the read-back and validation
\* only when every thread has finished and every work item is done.
C4_NoOverlap ==
  /\ [](/\ (DOMAIN thr # {} => strat = OMP /\ pc = "running")
        /\ (DOMAIN units # {} => IsKernel(strat) /\ pc = "running")
        /\ (pc \in TrialPcs \ {"report"} =>
              out = SubSeq(StrategyNames, 1, strat - 1))
        /\ (pc \in {"readback", "validate", "lap"} =>
              DOMAIN thr = {} /\ DOMAIN units = {}))
  /\ [][(pc = "running" /\ pc' # "running") =>
          /\ \A t \in DOMAIN thr : thr[t].st = "done"
          /\ \A g \in DOMAIN units : units[g].pc = "done"]_vars

C4_Witness ==
  /\ pc = "running"
  /\ StrategyNames[strat] = "sum_dummy"
  /\ iter = 0
  /\ DOMAIN units # {}
  /\ \A g \in DOMAIN units : units[g].pc = "done"
  /\ out = << "CPU", "CPU OMP" >>

\* C5: whenever a strategy is about to execute a trial, its result cell holds
\* 0: sum in the CPU blocks, result_gpu in the kernel block.
C5_ResultZeroAtLaunch ==
  pc = "launch" => (IF IsKernel(strat) THEN result_gpu ELSE sum) = 0

\* First trial of a kernel whose predecessor left a non-zero result behind.
C5_Witness ==
  /\ pc = "launch"
  /\ StrategyNames[strat] = "sum_global_atomic"
  /\ iter = 0
  /\ result # 0
  /\ result = reference_sum

\* C6: the unit count computed for the launch, read as an unsigned word, is
\* the smallest multiple of workGroupSize that is >= n.
C6_RoundsUpForEveryN ==
  pc = "cfg_done" =>
    LET total == global_work_size % Pow2(WordBits) IN
      /\ total % workGroupSize = 0
      /\ total >= n
      /\ total - workGroupSize < n

\* C7: when n is not a multiple of the group size, every kernel has added each
\* element exactly once when it returns, no index outside the array was read,
\* no work item beyond the array read the input, and the local-memory slot of
\* such a work item never holds anything but 0.
C7_RaggedTail ==
  (IsKernel(strat) /\ n % GroupSize # 0) =>
    /\ (pc = "readback" => \A j \in 0 .. n - 1 : cnt[j] = 1)
    /\ (pc = "readback" => result_gpu = reference_sum)
    /\ ~oob
    /\ \A g \in readers : g < n
    /\ \A g \in DOMAIN scratch : g >= n => scratch[g] \in {UNDEF, 0}

C7_Witness ==
  /\ pc = "readback"
  /\ StrategyNames[strat] = "sum_loop_coalesced"
  /\ n % GroupSize # 0
  /\ n > GroupSize
  /\ global_work_size > n
  /\ \A j \in DOMAIN as : as[j] # 0

\* C8: with n = 0 every strategy validates the sum 0 having read no input
\* element and no unwritten cell, and the run never aborts; with n = 1 every
\* strategy validates exactly as[0].
C8_EmptyAndSingle ==
  /\ (n = 0 =>
        /\ pc # "aborted"
        /\ readers = {}
        /\ reads = 0
        /\ ~oob
        /\ ~uninit
        /\ (pc = "validate" => Validated = 0 /\ reference_sum = 0 /\ i = 0))
  /\ (n = 1 /\ pc = "validate" => Validated = as[0])

C8_Witness ==
  /\ n = 0
  /\ pc = "validate"
  /\ StrategyNames[strat] = "sum_local_memory"
  /\ iter = 1

\* C9: every generated element lies in [0, UINT_MAX div n], so n times the
\* largest element is at most UINT_MAX and the running reference sum equals
\* the unwrapped sum of the elements generated so far.
C9_NoWrapOnGeneratedInput ==
  /\ \A j \in DOMAIN as :
       /\ 0 <= as[j]
       /\ as[j] <= UINT_MAX \div n
       /\ as[j] * n <= UINT_MAX
  /\ (pc = "gen" => PlainSum(i) <= UINT_MAX /\ reference_sum = PlainSum(i))
  /\ PlainSum(n) <= UINT_MAX

C9_Witness ==
  /\ pc = "gen"
  /\ i = n
  /\ n > 1
  /\ \A j \in DOMAIN as : as[j] = UINT_MAX \div n

\* C10: in the OpenMP block every element is added exactly once by the time
\* the threads have all finished, an iteration changes only the private copy
\* of the thread that runs it, the shared sum changes only when a thread that
\* has run all its iterations combines its copy, and the value validated after
\* the join is the reference sum.
C10_OmpReduction ==
  /\ []((strat = OMP /\ pc = "running" /\ OmpJoined) =>
          \A j \in 0 .. n - 1 : cnt[j] = 1)
  /\ []((strat = OMP /\ pc = "validate") => sum = reference_sum)
  /\ [][(strat = OMP /\ pc = "running" /\ pc' = "running") =>
          /\ (cnt' # cnt =>
                /\ sum' = sum
                /\ Cardinality({t \in DOMAIN thr : thr'[t] # thr[t]}) = 1)
          /\ (sum' # sum =>
                \E t \in DOMAIN thr :
                  /\ thr[t].st = "run"
                  /\ thr'[t].st = "done"
                  /\ \A j \in DOMAIN owner : owner[j] = t => cnt[j] = 1)]_vars

C10_Witness ==
  /\ strat = OMP
  /\ pc = "running"
  /\ Cardinality(DOMAIN thr) = 2
  /\ \A t \in DOMAIN thr : thr[t].st = "done" /\ thr[t].priv # 0
  /\ sum = reference_sum

\* C11: while a kernel runs and when it has returned, the result cell holds
\* the sum modulo 2^WordBits of every value passed to atomic_add since the
\* clear: each add changes the cell by exactly the value it was given, and no
\* add is lost.  In sum_global_atomic the adds issued so far are one per
\* finished in-range work item, each carrying that item's own element.
C11_NoLostUpdate ==
  /\ []((IsKernel(strat) /\ pc \in {"running", "readback"}) =>
          result_gpu = contrib)
  /\ []((IsKernel(strat) /\ pc = "validate") => result = contrib)
  /\ []((UnitRuns /\ KernelName = "sum_global_atomic") =>
          LET D == {g \in DOMAIN units : units[g].pc = "done" /\ g < n} IN
            /\ adds = Cardinality(D)
            /\ contrib = SumOver(as, D)
            /\ (KernelFinished => adds = n))
  /\ [][(UnitRuns /\ pc' = "running" /\ adds' # adds) =>
          /\ adds' = adds + 1
          /\ result_gpu' =
               (result_gpu + ((contrib' - contrib) % Pow2(WordBits))) % Pow2(WordBits)]_vars

C11_Witness ==
  /\ UnitRuns
  /\ KernelName = "sum_global_atomic"
  /\ KernelFinished
  /\ iter > 0
  /\ adds = MaxN
  /\ \A j \in DOMAIN as : as[j] > 0
  /\ result_gpu = contrib
  /\ contrib = reference_sum

\* C12: in sum_local_memory and sum_tree a work item reads scratch slots of
\* its own group only, every slot it is about to read has been written and
\* every work item of its group has arrived at the barrier before the read; no
\* unwritten cell is ever read; a step of a work item changes that item's
\* state and its own slot only; and a barrier opens as soon as the item's own
\* group has arrived, whatever the other groups are doing.
StagedKernels == {"sum_local_memory", "sum_tree"}
C12_ScratchDiscipline ==
  /\ []((UnitRuns /\ KernelName \in StagedKernels) =>
          /\ ~uninit
          /\ \A g \in DOMAIN units :
               /\ \A s \in ScratchReads(g) :
                    /\ s \in GroupOf(g)
                    /\ scratch[s] # UNDEF
                    /\ units[s].pc # "start"
               /\ (ScratchReads(g) # {} =>
                     \A u \in GroupOf(g) : Reached(u, units[g].lvl - 1))
               /\ ((units[g].pc = "bar" /\
                    \A u \in GroupOf(g) : Reached(u, units[g].lvl)) =>
                     ENABLED UnitBarrier(g)))
  /\ [][(UnitRuns /\ KernelName \in StagedKernels /\ pc' = "running") =>
          \E g \in DOMAIN units :
            /\ \A u \in DOMAIN units \ {g} : units'[u] = units[u]
            /\ \A u \in DOMAIN scratch \ {g} : scratch'[u] = scratch[u]]_vars

\* A work item of the first group is about to read both slots of its group
\* while no work item of the second group has started.
C12_Witness ==
  /\ UnitRuns
  /\ KernelName = "sum_tree"
  /\ Cardinality(DOMAIN units) = 2 * GroupSize
  /\ units[0].pc = "red"
  /\ ScratchReads(0) = {0, Half(0)}
  /\ \A s \in ScratchReads(0) : scratch[s] > 0
  /\ \A u \in DOMAIN units : Group(u) = 1 => units[u].pc = "start"

\* C13 (as stated): when a kernel's result differs from the reference sum,
\* the report printed before the abort carries the kernel's name, the input
\* size n, the expected value and the actual value.
C13_ReportCarriesInputSize ==
  (pc = "aborted" /\ IsKernel(strat)) =>
    /\ err.message = KernelName
    /\ err.a = reference_sum
    /\ err.b = result
    /\ n \in {err[f] : f \in DOMAIN err \ {"message", "filename"}}

\* C13 (amended): the report carries the kernel's name, the expected value,
\* the actual value, which differs from it, and the file and line of the
\* check, and nothing else: the input size is not part of it.
C13_ReportCarriesNameValuesAndLine ==
  (pc = "aborted" /\ IsKernel(strat)) =>
    /\ err = [message |-> KernelName, a |-> reference_sum, b |-> result,
              filename |-> "main_sum.cpp", line |-> 102]
    /\ err.a # err.b

C13_Witness ==
  /\ pc = "aborted"
  /\ IsKernel(strat)
  /\ KernelName = "sum_tree"
  /\ n = MaxN
  /\ err.a = reference_sum
  /\ err.b = 0
  /\ n \notin {err.a, err.b, err.line}

\* C14: when compiling or launching a kernel fails the run ends there: the
\* failing step validates, records and reports nothing, the failed kernel and
\* the kernels after it have no timing report, and no step follows the
\* failure (no later trial, no later kernel, no retry).
C14_FailureIsFatal ==
  /\ [](pc = "failed" =>
          /\ IsKernel(strat)
          /\ Len(out) = strat - 1
          /\ \A k \in strat .. NumStrategies :
               \A j \in 1 .. Len(out) : out[j] # StrategyNames[k])
  /\ [][/\ pc # "failed"
        /\ ((pc = "compile" /\ pc' # "head") \/ (pc = "launch" /\ pc' # "running")) =>
             /\ pc' = "failed"
             /\ out' = out
             /\ laps' = laps
             /\ iter' = iter
             /\ strat' = strat
             /\ trial' = trial]_vars

\* The third launch of sum_loop fails after two validated trials.
C14_Witness ==
  /\ pc = "failed"
  /\ KernelName = "sum_loop"
  /\ iter = 2
  /\ laps = 2
  /\ trial = << "reset" >>
  /\ out = SubSeq(StrategyNames, 1, strat - 1)

\* C15: the reference sum is complete before the first trial; from then on no
\* step changes the reference sum, the input size or the host array, and once
\* the device copy has been uploaded it equals the host array and no step
\* changes it.
C15_InputsAreFrozen ==
  /\ [](pc # "gen" => reference_sum = OracleSum(n))
  /\ [](IsKernel(strat) => as_gpu = as)
  /\ [][pc # "gen" => (reference_sum' = reference_sum /\ as' = as /\ n' = n)]_vars
  /\ [][IsKernel(strat) => as_gpu' = as_gpu]_vars

C15_Witness ==
  /\ pc = "done"
  /\ n = MaxN
  /\ \A j \in DOMAIN as : as[j] > 0
  /\ as_gpu = as
  /\ reference_sum = OracleSum(n)
  /\ out = StrategyNames

\* C16: under fair scheduling the run ends: from some point on main has
\* returned and the timing reports printed are those of the eight strategies,
\* each once, in program order.
ReportOrder ==
  << "CPU", "CPU OMP", "sum_dummy", "sum_global_atomic", "sum_loop",
     "sum_loop_coalesced", "sum_local_memory", "sum_tree" >>
C16_Terminates == <>[](pc = "done" /\ out = ReportOrder)

C16_Witness ==
  /\ pc = "done"
  /\ out = ReportOrder
  /\ n = MaxN
  /\ iter = 10
  /\ laps = 10
  /\ result = reference_sum

\* C17 (as stated): in every trial the result cell of the running strategy
\* has been written exactly once when the strategy has finished.
Finished ==
  \/ (~IsKernel(strat) /\ strat # 0 /\ pc = "validate")
  \/ (IsKernel(strat) /\ pc = "readback")
C17_WrittenExactlyOnce == Finished => writes = 1

\* C17 (amended): between the reset and the read-back the result cell is
\* written once per accumulation into it and by the running strategy only:
\* n times by the sequential loop, once per thread of the team by the OpenMP
\* reduction, once per atomic add by a kernel (n adds in sum_global_atomic, one
\* per group in the staged kernels); the CPU blocks leave result_gpu alone and
\* the kernel block leaves sum alone.
C17_OneWritePerAccumulation ==
  /\ []((strat = CPU /\ pc = "validate") => writes = n)
  /\ []((strat = OMP /\ pc = "running") =>
          writes = Cardinality({t \in DOMAIN thr : thr[t].st = "done"}))
  /\ []((IsKernel(strat) /\ pc \in {"running", "readback"}) => writes = adds)
  /\ []((IsKernel(strat) /\ pc = "readback") =>
          /\ (KernelName = "sum_global_atomic" => writes = n)
          /\ (KernelName \in StagedKernels =>
                writes = global_work_size \div GroupSize))
  /\ [][(pc \in {"launch", "running"}) =>
          /\ (IsKernel(strat) => sum' = sum)
          /\ (~IsKernel(strat) => result_gpu' = result_gpu)
          /\ (writes' = writes =>
                (sum' = sum /\ result_gpu' = result_gpu))]_vars

\* The sequential loop has written sum once per element, three times in all.
C17_Witness ==
  /\ strat = CPU
  /\ pc = "validate"
  /\ n = MaxN
  /\ writes = MaxN
  /\ sum = reference_sum
  /\ sum > 0

\* C18: in sum_local_memory and sum_tree the atomic adds issued so far are
\* one per group whose first work item has finished, together they carry the
\* sum of the elements of those groups, and when the kernel has finished their
\* number is the number of launched groups, global_work_size / GroupSize.
GroupsFolded == {Group(g) : g \in {u \in DOMAIN units : Lid(u) = 0 /\ units[u].pc = "done"}}
C18_OneAddPerGroup ==
  /\ (UnitRuns /\ KernelName \in StagedKernels) =>
       /\ adds = Cardinality(GroupsFolded)
       /\ contrib = SumOver(as, {j \in 0 .. n - 1 : Group(j) \in GroupsFolded})
       /\ (KernelFinished =>
             /\ adds = Cardinality({Group(g) : g \in DOMAIN units})
             /\ adds = global_work_size \div GroupSize)
  /\ (IsKernel(strat) /\ KernelName \in StagedKernels /\ pc = "readback") =>
       adds = global_work_size \div GroupSize

\* Three elements in two groups: two adds, fewer than the elements.
C18_Witness ==
  /\ UnitRuns
  /\ KernelName = "sum_local_memory"
  /\ KernelFinished
  /\ n = 3
  /\ global_work_size = 2 * GroupSize
  /\ adds = 2
  /\ adds < n
  /\ contrib = reference_sum
  /\ reference_sum > 0

\* The k-th smallest element of S (k from 0): the index a work item touches
\* in step k of its loop.  IsBlock: S is a run of consecutive integers.
NthOf(S, k) == CHOOSE x \in S : Cardinality({y \in S : y < x}) = k
IsBlock(S) == \A x \in S : \A y \in S : \A z \in x .. y : z \in S
LoopKernels == {"sum_loop", "sum_loop_coalesced"}
Steps == 0 .. VALUES_PER_WORKITEM - 1

\* What the two loop kernels share: every work item is assigned
\* VALUES_PER_WORKITEM indices, the assigned sets are pairwise disjoint, the
\* assigned indices below n are exactly 0..n-1, each of them is accumulated
\* once by the end of the kernel, and in sum_loop consecutive indices of one
\* work item are global_work_size apart.
LoopCommon ==
  /\ \A g \in DOMAIN units : Cardinality(UnitIndices(g)) = VALUES_PER_WORKITEM
  /\ \A g \in DOMAIN units : \A h \in DOMAIN units :
       g # h => UnitIndices(g) \cap UnitIndices(h) = {}
  /\ UNION {UnitReads(g) : g \in DOMAIN units} = 0 .. n - 1
  /\ (KernelFinished => \A j \in 0 .. n - 1 : cnt[j] = 1)
  /\ (KernelName = "sum_loop" =>
        \A g \in DOMAIN units : \A k \in Steps \ {0} :
          NthOf(UnitIndices(g), k) - NthOf(UnitIndices(g), k - 1) = global_work_size)

\* In every step the work items of one group touch one block of indices.
GroupBlockPerStep ==
  \A g \in DOMAIN units : \A k \in Steps :
    IsBlock({NthOf(UnitIndices(u), k) : u \in GroupOf(g)})

IsWord(v) == v \in 0 .. UINT_MAX
C20_WrapAroundEverywhere ==
  /\ pc # "aborted"
  /\ (pc # "gen" => reference_sum = PlainSum(n) % Pow2(WordBits))
  /\ (pc = "validate" => Validated = PlainSum(n) % Pow2(WordBits))
  /\ IsWord(sum)
  /\ IsWord(contrib)
  /\ \A t \in DOMAIN thr : IsWord(thr[t].priv)
  /\ \A g \in DOMAIN scratch : scratch[g] = UNDEF \/ IsWord(scratch[g])
  /\ (result_gpu = UNDEF \/ IsWord(result_gpu))

\* The second trial of sum_tree validates the wrapped sum of an array whose
\* true sum does not fit the word.
C20_Witness ==
  /\ pc = "validate"
  /\ IsKernel(strat)
  /\ KernelName = "sum_tree"
  /\ iter = 1
  /\ n = MaxN
  /\ PlainSum(n) > UINT_MAX
  /\ result = PlainSum(n) % Pow2(WordBits)
  /\ result = reference_sum

====
